---- MODULE Spec2Model ----
(***************************************************************************)
(* A model of the kvs storage engine (src/src/lib.rs): the append-only     *)
(* command log kvs.store, the in-memory index key -> byte offset, the      *)
(* stale-offset set offsets_to_rm, the position of the log file handle,    *)
(* and the operations open / set / get / remove with the compaction that   *)
(* set runs.                                                               *)
(*                                                                         *)
(* The log file is a sequence of command records.  Byte offsets are        *)
(* computed from the exact length of the JSON text serde_json writes for   *)
(* each record, so an offset is the start of a record, lies inside one,    *)
(* or is at/after the end of the file, exactly as in the file on disk.     *)
(***************************************************************************)
EXTENDS Integers, Sequences, FiniteSets, TLC

\* ------------------------------------------------------------------------
\* Bounds of the model

\* number of calls that append to the log (set, successful remove) in one
\* behaviour
MaxOps == 4

\* The compaction threshold is a parameter of every behaviour: it is drawn
\* from 0..MaxTrigger.  (The reference build fixes it to 500, lib.rs:15.)
MaxTrigger == 1

\* number of records of a pre-existing log file handed to open (SpecOpen)
MaxFile == 3

\* ------------------------------------------------------------------------
\* Data

Keys == {"a", "b"}

\* the empty string is a legal value
Values == {"", "x"}

\* Option<T>: None is the empty sequence, Some(v) the one-element sequence
None == <<>>

Some(v) == <<v>>

\* enum CommandType; "JUNK" marks bytes that are no JSON command (a record
\* cut short by a crash), which only a pre-existing file can hold
CommandType == {"SET", "GET", "RM"}

\* struct Command
Command(k, v, t) == [key |-> k, value |-> v, command_type |-> t]

SetCommand(k, v) == Command(k, Some(v), "SET")

RmCommand(k) == Command(k, None, "RM")

\* a record tagged GET, as legacy logs hold them: {"key":K,"value":null,
\* "command_type":"GET"}
GetCommand(k) == Command(k, None, "GET")

\* the text `{"key":"a"` : a SET record cut after 10 bytes
JunkRecord == Command("a", None, "JUNK")

\* serde_json::to_string(&command).len():
\*   {"key":"  K  ","value":  null | "V"  ,"command_type":"  T  "}
\*      8      |K|    10        4  | 2+|V|        17          |T|  2
EncodedLen(c) ==
    IF c.command_type = "JUNK" THEN 8 + Len(c.key) + 1
    ELSE 8 + Len(c.key) + 10
         + (IF c.value = None THEN 4 ELSE 2 + Len(c.value[1]))
         + 17 + Len(c.command_type) + 2

\* the length in bytes of a file holding the records f
RECURSIVE FileLen(_)
FileLen(f) == IF f = <<>> THEN 0 ELSE EncodedLen(Head(f)) + FileLen(Tail(f))

\* the byte offset at which the i-th record of f starts
OffsetOf(f, i) == FileLen(SubSeq(f, 1, i - 1))

\* Deserializer::from_reader(..).into_iter::<Command>().next() on a reader
\* positioned at byte o of the file f:
\*   None            at or after the end of the file
\*   Some(Ok(c))     when o is the start of a well-formed record c
\*   Some(Err)       when o is the start of junk or lies inside a record
\* (a command is a JSON object, and the byte '{' occurs only at the start
\* of a record since no key or value of the model holds one)
DecodeAt(f, o) ==
    IF o >= FileLen(f) THEN [tag |-> "None"]
    ELSE IF \E i \in 1..Len(f) : OffsetOf(f, i) = o /\ f[i].command_type # "JUNK"
         THEN LET i == CHOOSE j \in 1..Len(f) : OffsetOf(f, j) = o
              IN  [tag |-> "Ok", cmd |-> f[i]]
         ELSE [tag |-> "Err"]

\* the number of leading records of f the stream iterator yields as
\* Some(Ok(_)) before it ends or fails
RECURSIVE DecodablePrefix(_)
DecodablePrefix(f) ==
    IF f = <<>> \/ Head(f).command_type = "JUNK" THEN 0
    ELSE 1 + DecodablePrefix(Tail(f))

\* ------------------------------------------------------------------------
\* The store.  A store value st is the struct KvStore:
\*   st.index          HashMap<String, u64>
\*   st.log            the contents of the file the handle `log` is open on
\*   st.cursor         the file position of the handle `log`
\*   st.offsets_to_rm  HashSet<u64>
\* (the field `path` never changes and is left out)

\* HashMap::insert
IndexInsert(index, k, o) ==
    [x \in (DOMAIN index) \cup {k} |-> IF x = k THEN o ELSE index[x]]

\* HashMap::remove
IndexRemove(index, k) == [x \in (DOMAIN index) \ {k} |-> index[x]]

\* The position of a file handle after a BufReader on it was asked for
\* bytes at position p: the reader fills its 8 KiB buffer, which takes in
\* the rest of every file of the model; at or after the end nothing is read.
ReadAhead(f, p) == IF p >= FileLen(f) THEN p ELSE FileLen(f)

\* replay: the loop `while let Some(Ok(c)) = stream.next()` over the first
\* n records, i the next record to visit
RECURSIVE ReplayFrom(_, _, _, _)
ReplayFrom(f, i, n, index) ==
    IF i > n THEN index
    ELSE ReplayFrom(f, i + 1, n,
            IF f[i].command_type = "RM"
            THEN IndexRemove(index, f[i].key)
            ELSE IndexInsert(index, f[i].key, OffsetOf(f, i)))

replay(f) == ReplayFrom(f, 1, DecodablePrefix(f), <<>>)

\* KvStore::open on a directory whose kvs.store holds f (an absent file is
\* created empty)
open(f) ==
    [index |-> replay(f), log |-> f, offsets_to_rm |-> {},
     cursor |-> ReadAhead(f, 0)]

\* the compaction loop without line 203: a skipped offset stays in the set
RECURSIVE CompactFrom_KeepsOffsets(_, _, _, _, _, _)
CompactFrom_KeepsOffsets(f, i, n, index, offs, nl) ==
    IF i > n THEN [index |-> index, offsets_to_rm |-> offs, log |-> nl]
    ELSE IF OffsetOf(f, i) \in offs
         THEN CompactFrom_KeepsOffsets(f, i + 1, n, index, offs, nl)
         ELSE CompactFrom_KeepsOffsets(f, i + 1, n,
                          IndexInsert(index, f[i].key, FileLen(nl)),
                          offs, Append(nl, f[i]))

\* compact_log: the loop over the first n records of the old log; nl is the
\* new log built so far
RECURSIVE CompactFrom(_, _, _, _, _, _)
CompactFrom(f, i, n, index, offs, nl) ==
    IF i > n THEN [index |-> index, offsets_to_rm |-> offs, log |-> nl]
    ELSE IF OffsetOf(f, i) \in offs
         THEN CompactFrom(f, i + 1, n, index, offs \ {OffsetOf(f, i)}, nl)
         ELSE CompactFrom(f, i + 1, n,
                          IndexInsert(index, f[i].key, FileLen(nl)),
                          offs, Append(nl, f[i]))

\* compact_log whose new file is kvs.store itself (no suffix in line 196):
\* the file is opened for appending, so the kept records land after the old
\* ones
compact_log_SamePath(st) ==
    LET r == CompactFrom(st.log, 1, DecodablePrefix(st.log),
                         st.index, st.offsets_to_rm, <<>>)
    IN  [index |-> r.index, log |-> st.log \o r.log,
         offsets_to_rm |-> r.offsets_to_rm, cursor |-> 0]

\* compact_log: rebuild the log, rename it over kvs.store, reopen it
compact_log(st) ==
    LET r == CompactFrom(st.log, 1, DecodablePrefix(st.log),
                         st.index, st.offsets_to_rm, <<>>)
    IN  [index |-> r.index, log |-> r.log,
         offsets_to_rm |-> r.offsets_to_rm, cursor |-> 0]

\* set, lines 80-82: index.insert(key, current_offset).map(|o| offsets_to_rm.insert(o))
StaleAfterSet(st, k) ==
    IF k \in DOMAIN st.index THEN st.offsets_to_rm \cup {st.index[k]}
    ELSE st.offsets_to_rm

\* set, line 84: the test that runs compact_log
SetCompacts(st, k, trig) == Cardinality(StaleAfterSet(st, k)) > trig

\* set with the offset taken from the handle's position (SeekFrom::Current)
\* instead of the end of the file
set_CurrentOffset(st, k, v, trig) ==
    LET current_offset == st.cursor
        written == [st EXCEPT
            !.log = Append(st.log, SetCommand(k, v)),
            !.cursor = FileLen(st.log) + EncodedLen(SetCommand(k, v)),
            !.index = IndexInsert(st.index, k, current_offset),
            !.offsets_to_rm = StaleAfterSet(st, k)]
        compacted == IF SetCompacts(st, k, trig)
                     THEN compact_log(written)
                     ELSE written
    IN  [compacted EXCEPT !.cursor = 0]

\* KvStore::set with compaction threshold trig; always returns Ok(())
set(st, k, v, trig) ==
    LET current_offset == FileLen(st.log)
        written == [st EXCEPT
            !.log = Append(st.log, SetCommand(k, v)),
            !.cursor = current_offset + EncodedLen(SetCommand(k, v)),
            !.index = IndexInsert(st.index, k, current_offset),
            !.offsets_to_rm = StaleAfterSet(st, k)]
        compacted == IF SetCompacts(st, k, trig)
                     THEN compact_log(written)
                     ELSE written
    IN  [compacted EXCEPT !.cursor = 0]

\* get as in the early revision that logs a GET record on every hit
get_WritesGetRecord(st, k) ==
    IF k \in DOMAIN st.index
    THEN LET d == DecodeAt(st.log, st.index[k])
         IN  IF d.tag = "Ok"
             THEN [tag |-> IF d.cmd.value = None THEN "Panic" ELSE "Ok",
                   value |-> d.cmd.value,
                   st |-> [st EXCEPT !.cursor = 0,
                              !.log = Append(st.log, Command(k, None, "GET"))]]
             ELSE [tag |-> "Ok", value |-> None,
                   st |-> [st EXCEPT !.cursor = ReadAhead(st.log, st.index[k])]]
    ELSE [tag |-> "Ok", value |-> None, st |-> st]

\* KvStore::get: the outcome and the store it leaves.
\*   tag "Ok"    : returned Ok(value)
\*   tag "Panic" : value.as_ref().unwrap() on a record whose value is null
get(st, k) ==
    IF k \in DOMAIN st.index
    THEN LET d == DecodeAt(st.log, st.index[k])
         IN  IF d.tag = "Ok"
             THEN [tag |-> IF d.cmd.value = None THEN "Panic" ELSE "Ok",
                   value |-> d.cmd.value,
                   st |-> [st EXCEPT !.cursor = 0]]
             ELSE [tag |-> "Ok", value |-> None,
                   st |-> [st EXCEPT !.cursor = ReadAhead(st.log, st.index[k])]]
    ELSE [tag |-> "Ok", value |-> None, st |-> st]

\* remove that drops the key from the index but never writes the RM record
remove_NoLogWrite(st, k) ==
    IF k \in DOMAIN st.index
    THEN [tag |-> "Ok",
          st |-> [st EXCEPT
              !.index = IndexRemove(st.index, k),
              !.offsets_to_rm = st.offsets_to_rm \cup {st.cursor},
              !.cursor = 0]]
    ELSE [tag |-> "Err", st |-> st]

\* remove that appends the RM record but leaves the key in the index
remove_KeepsIndex(st, k) ==
    IF k \in DOMAIN st.index
    THEN [tag |-> "Ok",
          st |-> [st EXCEPT
              !.offsets_to_rm = st.offsets_to_rm \cup {st.cursor},
              !.log = Append(st.log, RmCommand(k)),
              !.cursor = 0]]
    ELSE [tag |-> "Err", st |-> st]

\* KvStore::remove: tag "Ok" for Ok(()), "Err" for Err("Key not found")
remove(st, k) ==
    IF k \in DOMAIN st.index
    THEN [tag |-> "Ok",
          st |-> [st EXCEPT
              !.index = IndexRemove(st.index, k),
              !.offsets_to_rm = st.offsets_to_rm \cup {st.cursor},
              !.log = Append(st.log, RmCommand(k)),
              !.cursor = 0]]
    ELSE [tag |-> "Err", st |-> st]

\* ------------------------------------------------------------------------
\* State

VARIABLES
    index,          \* KvStore.index
    log,            \* contents of <dir>/kvs.store, which KvStore.log is open on
    cursor,         \* file position of the handle KvStore.log
    offsets_to_rm,  \* KvStore.offsets_to_rm
    status,         \* "closed": no store; "open"; "panicked": a call aborted
    trigger,        \* the compaction threshold of this behaviour
    shadow,         \* the same calls on a store whose threshold is never crossed
    twin,           \* the same calls with every get left out, on a second store
                    \* (followed in SpecTwin only)
    expected,       \* ghost: key -> value of the latest successful set/remove
    last,           \* ghost: the latest call with what it returned
    nops,           \* ghost: number of calls that appended to the log
    comp,           \* where a running compact_log stands (SpecCrash)
    proc            \* what the latest kvs process printed and returned (SpecCli)

vars == <<index, log, cursor, offsets_to_rm, status, trigger, shadow, twin,
          expected, last, nops, comp, proc>>

\* the struct KvStore held in the variables
Store == [index |-> index, log |-> log, offsets_to_rm |-> offsets_to_rm,
          cursor |-> cursor]

\* a threshold no behaviour crosses: a call adds at most one stale offset
Untriggered == MaxOps

\* one call, what it returned (tag, value), what the same call returned on
\* the shadow store (stag, svalue), and whether it ran compact_log
Call(op, k, arg, tag, value, stag, svalue, compacted) ==
    [op |-> op, key |-> k, arg |-> arg, tag |-> tag, value |-> value,
     stag |-> stag, svalue |-> svalue, compacted |-> compacted]

\* before the first call
NoCall == Call("none", "", None, "Ok", None, "Ok", None, FALSE)

\* KvStore::open returned a store
OpenCall == Call("open", "", None, "Ok", None, "Ok", None, FALSE)


\* the twin store st after a call that returned (tag, value) on it
Twin(st, tag, value) == [st |-> st, tag |-> tag, value |-> value]

\* no twin store is followed
TwinOff == Twin(open(<<>>), "Off", None)

\* the twin after a call, where one is followed
TwinNext(t) == IF twin.tag = "Off" THEN twin ELSE t

\* compact_log as a sequence of steps.  pc: "idle", "copy" (the loop of
\* lines 200-214 is at record i of kvs.store, new_log is the contents of
\* the sibling file kvs.store.<timestamp>) or "renamed" (line 218 done);
\* old is the store compact_log was called on; crashed: the process
\* stopped at this point
Compaction(pc, i, new_log, old, crashed) ==
    [pc |-> pc, i |-> i, new_log |-> new_log, old |-> old,
     crashed |-> crashed]

\* no compact_log is running
Idle == Compaction("idle", 1, <<>>, open(<<>>), FALSE)

\* a finished process of the driver: the lines it printed on stdout and its
\* exit status
Exit(stdout, code) == [stdout |-> stdout, exit |-> code]

\* no process has run
NoProcess == Exit(<<>>, 0)

\* the variables hold the store st
Holds(st) ==
    /\ index = st.index
    /\ log = st.log
    /\ cursor = st.cursor
    /\ offsets_to_rm = st.offsets_to_rm

\* the call leaves the store st in the variables
Install(st) ==
    /\ index' = st.index
    /\ log' = st.log
    /\ cursor' = st.cursor
    /\ offsets_to_rm' = st.offsets_to_rm

\* an empty directory, KvStore::open just returned
Init ==
    /\ Holds(open(<<>>))
    /\ status = "open"
    /\ trigger \in 0..MaxTrigger
    /\ shadow = open(<<>>)
    /\ twin = TwinOff
    /\ expected = [k \in Keys |-> None]
    /\ last = OpenCall
    /\ nops = 0
    /\ comp = Idle
    /\ proc = NoProcess

\* ------------------------------------------------------------------------
\* Calls on the open store

\* store.set(k, v)
Set(k, v) ==
    /\ status = "open"
    /\ nops < MaxOps
    /\ Install(set(Store, k, v, trigger))
    /\ shadow' = set(shadow, k, v, Untriggered)
    /\ twin' = TwinNext(Twin(set(twin.st, k, v, trigger), "Ok", None))
    /\ expected' = [expected EXCEPT ![k] = Some(v)]
    /\ last' = (Call("set", k, Some(v), "Ok", None, "Ok", None,
                               SetCompacts(Store, k, trigger)))
    /\ nops' = nops + 1
    /\ UNCHANGED <<status, trigger, comp, proc>>

\* store.get(k)
Get(k) ==
    /\ status = "open"
    /\ LET r == get(Store, k)
           s == get(shadow, k)
       IN  /\ Install(r.st)
           /\ shadow' = s.st
           /\ twin' = TwinNext(Twin(twin.st, get(twin.st, k).tag,
                                     get(twin.st, k).value))
           /\ status' = IF r.tag = "Panic" THEN "panicked" ELSE "open"
           /\ last' = (Call("get", k, None, r.tag, r.value,
                                      s.tag, s.value, FALSE))
    /\ UNCHANGED <<trigger, expected, nops, comp, proc>>

\* store.remove(k)
Remove(k) ==
    /\ status = "open"
    /\ LET r == remove(Store, k)
           s == remove(shadow, k)
       IN  /\ (r.tag = "Ok" \/ s.tag = "Ok") => nops < MaxOps
           /\ nops' = IF r.tag = "Ok" \/ s.tag = "Ok" THEN nops + 1 ELSE nops
           /\ Install(r.st)
           /\ shadow' = s.st
           /\ twin' = TwinNext(Twin(remove(twin.st, k).st,
                                     remove(twin.st, k).tag, None))
           /\ expected' = IF r.tag = "Ok" THEN [expected EXCEPT ![k] = None]
                          ELSE expected
           /\ last' = (Call("remove", k, None, r.tag, None,
                                      s.tag, None, FALSE))
    /\ UNCHANGED <<status, trigger, comp, proc>>

\* the store is dropped (or its process died in a panic) and the directory
\* is opened again
Reopen ==
    /\ status \in {"open", "panicked"}
    /\ Install(open(log))
    /\ shadow' = open(shadow.log)
    /\ twin' = TwinNext(Twin(open(twin.st.log), "Ok", None))
    /\ status' = "open"
    /\ last' = (OpenCall)
    /\ UNCHANGED <<trigger, expected, nops, comp, proc>>

Next ==
    \/ \E k \in Keys, v \in Values : Set(k, v)
    \/ \E k \in Keys : Get(k)
    \/ \E k \in Keys : Remove(k)
    \/ Reopen

Spec == Init /\ [][Next]_vars

\* an empty directory, KvStore::open just returned, on it and on the twin
InitTwin ==
    /\ Holds(open(<<>>))
    /\ status = "open"
    /\ trigger \in 0..MaxTrigger
    /\ shadow = open(<<>>)
    /\ twin = Twin(open(<<>>), "Ok", None)
    /\ expected = [k \in Keys |-> None]
    /\ last = OpenCall
    /\ nops = 0
    /\ comp = Idle
    /\ proc = NoProcess

\* the calls of Spec, with the twin store followed
SpecTwin == InitTwin /\ [][Next]_vars

\* ------------------------------------------------------------------------
\* Opening a directory that already holds a log file

\* the records a pre-existing kvs.store may hold
FileRecords ==
    {SetCommand(k, v) : k \in Keys, v \in Values}
        \cup {RmCommand(k) : k \in Keys} \cup {GetCommand(k) : k \in Keys}
        \cup {JunkRecord}

RECURSIVE Files(_)
Files(n) ==
    IF n = 0 THEN {<<>>}
    ELSE LET shorter == Files(n - 1)
         IN  shorter \cup {Append(f, r) : f \in shorter, r \in FileRecords}

\* what KvStore::open returns: replay has no Err return and open only
\* propagates replay's, so the result is Ok(store) for every file
OpenResult(f) == "Ok"

\* no store yet; kvs.store holds any file of at most MaxFile records
InitOpen ==
    /\ log \in Files(MaxFile)
    /\ index = <<>>
    /\ cursor = 0
    /\ offsets_to_rm = {}
    /\ status = "closed"
    /\ trigger \in 0..MaxTrigger
    /\ shadow = open(<<>>)
    /\ twin = TwinOff
    /\ expected = [k \in Keys |-> None]
    /\ last = NoCall
    /\ nops = 0
    /\ comp = Idle
    /\ proc = NoProcess

\* KvStore::open(dir)
Open ==
    /\ status = "closed"
    /\ Install(open(log))
    /\ shadow' = open(log)
    /\ twin' = TwinNext(Twin(open(log), "Ok", None))
    /\ status' = "open"
    /\ last' = [OpenCall EXCEPT !.tag = OpenResult(log)]
    /\ UNCHANGED <<trigger, expected, nops, comp, proc>>

NextOpen ==
    \/ Open
    \/ \E k \in Keys : Get(k)

SpecOpen == InitOpen /\ [][NextOpen]_vars

\* ------------------------------------------------------------------------
\* A set that compacts, one step of compact_log at a time, and a process
\* that may stop between any two steps

\* set, lines 71-82: the record is appended, the index updated, the
\* overwritten offset recorded
SetWritten(st, k, v) ==
    [st EXCEPT
        !.log = Append(st.log, SetCommand(k, v)),
        !.cursor = FileLen(st.log) + EncodedLen(SetCommand(k, v)),
        !.index = IndexInsert(st.index, k, FileLen(st.log)),
        !.offsets_to_rm = StaleAfterSet(st, k)]

\* store.set(k, v) when the test of line 84 fails: no compaction
SetPlain(k, v) ==
    /\ ~SetCompacts(Store, k, trigger)
    /\ Set(k, v)

\* store.set(k, v) when the test of line 84 holds, up to the creation of
\* the empty sibling file in compact_log (line 198)
SetWrite(k, v) ==
    /\ status = "open"
    /\ nops < MaxOps
    /\ SetCompacts(Store, k, trigger)
    /\ Install([SetWritten(Store, k, v) EXCEPT !.cursor = 0])
    /\ comp' = Compaction("copy", 1, <<>>, SetWritten(Store, k, v), FALSE)
    /\ status' = "compacting"
    /\ shadow' = set(shadow, k, v, Untriggered)
    /\ twin' = TwinNext(Twin(set(twin.st, k, v, trigger), "Ok", None))
    /\ expected' = [expected EXCEPT ![k] = Some(v)]
    /\ last' = Call("set", k, Some(v), "Ok", None, "Ok", None, TRUE)
    /\ nops' = nops + 1
    /\ UNCHANGED <<trigger, proc>>

\* one turn of the loop of compact_log: record comp.i is skipped, or
\* written to the sibling file and indexed
CompactStep ==
    /\ status = "compacting"
    /\ comp.pc = "copy"
    /\ comp.i <= DecodablePrefix(log)
    /\ IF OffsetOf(log, comp.i) \in offsets_to_rm
       THEN /\ offsets_to_rm' = offsets_to_rm \ {OffsetOf(log, comp.i)}
            /\ comp' = [comp EXCEPT !.i = @ + 1]
            /\ UNCHANGED index
       ELSE /\ index' = IndexInsert(index, log[comp.i].key,
                                    FileLen(comp.new_log))
            /\ comp' = [comp EXCEPT !.i = @ + 1,
                                    !.new_log = Append(@, log[comp.i])]
            /\ UNCHANGED offsets_to_rm
    /\ cursor' = ReadAhead(log, cursor)
    /\ UNCHANGED <<log, status, trigger, shadow, twin, expected, last, nops,
                   proc>>

\* a rename that does not wait for the loop to end
CompactRename_Early ==
    /\ status = "compacting"
    /\ comp.pc = "copy"
    /\ log' = comp.new_log
    /\ comp' = [comp EXCEPT !.pc = "renamed"]
    /\ UNCHANGED <<index, cursor, offsets_to_rm, status, trigger, shadow,
                   twin, expected, last, nops, proc>>

\* the loop has ended: fs::rename puts the sibling file in the place of
\* kvs.store
CompactRename ==
    /\ status = "compacting"
    /\ comp.pc = "copy"
    /\ comp.i > DecodablePrefix(log)
    /\ log' = comp.new_log
    /\ comp' = [comp EXCEPT !.pc = "renamed"]
    /\ UNCHANGED <<index, cursor, offsets_to_rm, status, trigger, shadow,
                   twin, expected, last, nops, proc>>

\* the handle is opened on the new kvs.store, compact_log returns and set
\* rewinds the handle
CompactReopen ==
    /\ status = "compacting"
    /\ comp.pc = "renamed"
    /\ cursor' = 0
    /\ status' = "open"
    /\ comp' = Idle
    /\ UNCHANGED <<index, log, offsets_to_rm, trigger, shadow, twin,
                   expected, last, nops, proc>>

\* the process stops inside compact_log: the store is gone, the files stay
Crash ==
    /\ status = "compacting"
    /\ status' = "closed"
    /\ comp' = [comp EXCEPT !.crashed = TRUE]
    /\ index' = <<>>
    /\ cursor' = 0
    /\ offsets_to_rm' = {}
    /\ UNCHANGED <<log, trigger, shadow, twin, expected, last, nops, proc>>

NextCrash ==
    \/ \E k \in Keys, v \in Values : SetPlain(k, v)
    \/ \E k \in Keys, v \in Values : SetWrite(k, v)
    \/ \E k \in Keys : Remove(k)
    \/ CompactStep
    \/ CompactRename
    \/ CompactReopen
    \/ Crash
    \/ Open

SpecCrash == Init /\ [][NextCrash]_vars

\* ------------------------------------------------------------------------
\* The command-line driver: every invocation is a process that opens the
\* store in the current directory, makes one call and ends.  A process
\* holds at most one stale offset, so it never compacts.

\* the current directory is empty and no process has run
InitCli ==
    /\ Holds(open(<<>>))
    /\ status = "closed"
    /\ trigger = Untriggered
    /\ shadow = open(<<>>)
    /\ twin = TwinOff
    /\ expected = [k \in Keys |-> None]
    /\ last = NoCall
    /\ nops = 0
    /\ comp = Idle
    /\ proc = NoProcess

\* kvs set k v
KvsSet(k, v) ==
    /\ status = "closed"
    /\ nops < MaxOps
    /\ Install(set(open(log), k, v, trigger))
    /\ proc' = Exit(<<>>, 0)
    /\ expected' = [expected EXCEPT ![k] = Some(v)]
    /\ last' = Call("kvs set", k, Some(v), "Ok", None, "Ok", None, FALSE)
    /\ nops' = nops + 1
    /\ UNCHANGED <<status, trigger, shadow, twin, comp>>

\* kvs get k.  On a hit KvStore::get itself prints the value (println! at
\* lib.rs:120) and main prints nothing more; on a miss main prints
\* "Key not found"; a process that panics exits with status 101
KvsGet(k) ==
    /\ status = "closed"
    /\ LET r == get(open(log), k)
       IN  /\ Install(r.st)
           /\ proc' = IF r.tag = "Panic" THEN Exit(<<>>, 101)
                      ELSE IF r.value = None
                           THEN Exit(<<"Key not found">>, 0)
                           ELSE Exit(<<r.value[1]>>, 0)
           /\ last' = Call("kvs get", k, None, r.tag, r.value,
                           "Ok", None, FALSE)
    /\ UNCHANGED <<status, trigger, shadow, twin, expected, nops, comp>>

\* kvs rm k
KvsRm(k) ==
    /\ status = "closed"
    /\ LET r == remove(open(log), k)
       IN  /\ r.tag = "Ok" => nops < MaxOps
           /\ nops' = IF r.tag = "Ok" THEN nops + 1 ELSE nops
           /\ Install(r.st)
           /\ proc' = IF r.tag = "Ok" THEN Exit(<<>>, 0) ELSE Exit(<<>>, 1)
           /\ expected' = IF r.tag = "Ok" THEN [expected EXCEPT ![k] = None]
                          ELSE expected
           /\ last' = Call("kvs rm", k, None, r.tag, None,
                           "Ok", None, FALSE)
    /\ UNCHANGED <<status, trigger, shadow, twin, comp>>

NextCli ==
    \/ \E k \in Keys, v \in Values : KvsSet(k, v)
    \/ \E k \in Keys : KvsGet(k)
    \/ \E k \in Keys : KvsRm(k)

SpecCli == InitCli /\ [][NextCli]_vars

\* ------------------------------------------------------------------------
\* Properties

\* the log holds a SET record of k with no RM record of k after it
LiveInLog(f, k) ==
    \E i \in 1..Len(f) :
        /\ f[i].command_type = "SET" /\ f[i].key = k
        /\ \A j \in (i + 1)..Len(f) :
               ~(f[j].command_type = "RM" /\ f[j].key = k)

\* the latest two records of the log are SET k and RM k: the latest two
\* calls that wrote were set(k, _) and remove(k)
EndsWithSetRemove(f, k) ==
    /\ Len(f) >= 2
    /\ f[Len(f) - 1].command_type = "SET" /\ f[Len(f) - 1].key = k
    /\ f[Len(f)] = RmCommand(k)

\* C1: a get that returns yields the value of the latest successful set of
\* its key, and None when the key was never set or its latest mutation was
\* a remove.
C1_GetReturnsLatest ==
    (last.op = "get" /\ last.tag = "Ok") => last.value = expected[last.key]

\* C2: read-after-write: a get(k) that immediately follows set(k, v)
\* returns Some(v), whether or not the set ran compaction.
C2_ReadAfterWrite ==
    [][\A k \in Keys :
          (last.op = "set" /\ last.key = k /\ Get(k))
              => (last'.tag = "Ok" /\ last'.value = last.arg)]_vars

\* a set of the empty string has just run compaction, and the get that
\* follows it returns Some("")
C2_Witness ==
    /\ last.op = "set" /\ last.compacted /\ last.arg = Some("")
    /\ nops > 2
    /\ ENABLED (Get(last.key) /\ last'.value = Some(""))

\* C3: every get and remove that returns, returns what the same call returns
\* in the same sequence of calls on a store that never compacts.
C3_CompactionTransparent ==
    (last.op \in {"get", "remove"} /\ last.tag # "Panic")
        => (last.tag = last.stag /\ last.value = last.svalue)

\* C4: after dropping the store and opening the directory again, get(k)
\* returns for every key the value of its latest successful set, and None
\* when the key was never set or was removed after it.
C4_Persistence ==
    (last.op = "open" /\ status = "open")
        => \A k \in Keys :
               /\ get(Store, k).tag = "Ok"
               /\ get(Store, k).value = expected[k]

\* C5: remove(k) fails with the key-not-found error whenever k was never
\* set or its latest mutation was a successful remove.
C5_RemoveMissing ==
    [][\A k \in Keys :
          (expected[k] = None /\ Remove(k)) => last'.tag = "Err"]_vars

\* C6: set(k, v), then a successful remove(k), then get(k): the get returns
\* None.
C6_RemoveThenGet ==
    [][\A k \in Keys :
          (/\ last.op = "remove" /\ last.tag = "Ok" /\ last.key = k
           /\ EndsWithSetRemove(log, k)
           /\ Get(k))
              => (last'.tag = "Ok" /\ last'.value = None)]_vars

\* remove(k) has just succeeded right after set(k, _), compaction has run
\* before, and the get that follows returns None
C6_Witness ==
    /\ last.op = "remove" /\ last.tag = "Ok"
    /\ EndsWithSetRemove(log, last.key)
    /\ Len(log) < Len(shadow.log)
    /\ ENABLED (Get(last.key) /\ last'.tag = "Ok" /\ last'.value = None)

\* C7: invariant I1: every index entry (k, o) points at the start of a
\* record of the current log, and that record is a SET of k.
C7_IndexPointsAtSet ==
    status = "open" =>
        \A k \in DOMAIN index :
            LET d == DecodeAt(log, index[k])
            IN  /\ d.tag = "Ok"
                /\ d.cmd.command_type = "SET"
                /\ d.cmd.key = k

\* C8: invariant I2: every key with a SET record in the current log and no
\* RM record after it is in the index.
C8_LiveKeysIndexed ==
    status = "open" => \A k \in Keys : LiveInLog(log, k) => k \in DOMAIN index

\* a set has just run compaction; the rewritten log holds a live key, which
\* is indexed, and an RM record that outlived the compaction
C8_Witness ==
    /\ status = "open"
    /\ last.op = "set" /\ last.compacted
    /\ \E k \in Keys : LiveInLog(log, k) /\ k \in DOMAIN index
    /\ \E i \in 1..Len(log) : log[i].command_type = "RM"

\* C9: every call returns; no reachable state makes get abort.
C9_NoPanic == status # "panicked"

\* C10: open fails when the log holds a record that cannot be decoded.
C10_CorruptLogFailsOpen ==
    (last.op = "open" /\ \E i \in 1..Len(log) : log[i].command_type = "JUNK")
        => last.tag = "Err"

\* the offsets at which the records of f start
RecordStarts(f) == {OffsetOf(f, i) : i \in 1..Len(f)}

\* the number of SET records of k in f
NumSets(f, k) ==
    Cardinality({i \in 1..Len(f) : f[i].command_type = "SET" /\ f[i].key = k})

\* C12: a compaction leaves the log no larger than it was right before it,
\* that is with the record the set had just appended.
C12_CompactionShrinks ==
    [][\A k \in Keys, v \in Values :
          (last'.compacted /\ Set(k, v))
              => FileLen(log') <= FileLen(log) + EncodedLen(SetCommand(k, v))]_vars

\* a set has just run a compaction under threshold 1, which skipped at
\* least two stale records
C12_Witness ==
    /\ last.op = "set" /\ last.compacted
    /\ trigger = 1
    /\ FileLen(log) < FileLen(shadow.log)

\* C14: every stale offset is the start of a record of the current log that
\* no index entry points to.
C14_StaleOffsetsUnreachable ==
    status = "open" =>
        \A o \in offsets_to_rm :
            /\ o \in RecordStarts(log)
            /\ \A k \in DOMAIN index : index[k] # o

\* C15: right after a compaction the log holds exactly one SET record for
\* each key of the index and none for any other key.
C15_OneSetPerLiveKey ==
    (last.op = "set" /\ last.compacted) =>
        \A k \in Keys :
            NumSets(log, k) = (IF k \in DOMAIN index THEN 1 ELSE 0)

\* C16: right after a compaction, replay of the log yields the store's index.
C16_ReplayAfterCompaction ==
    (last.op = "set" /\ last.compacted) => replay(log) = index

\* C17: the stale-offset set is empty right after open and right after every
\* compaction.
C17_StaleEmptied ==
    (last.op = "open" \/ (last.op = "set" /\ last.compacted))
        => offsets_to_rm = {}

\* a set has just run a compaction that skipped two stale records, one
\* recorded by a remove and one by an overwrite
C17_Witness ==
    /\ last.op = "set" /\ last.compacted
    /\ trigger = 1
    /\ Len(log) + 2 <= Len(shadow.log)
    /\ \E i \in 1..Len(shadow.log) : shadow.log[i].command_type = "RM"
    /\ offsets_to_rm = {}

\* C19: get leaves the log, the index and the stale-offset set as they were.
\* (Every Get step records a get in last; testing that first spares the
\* evaluation of Get on the other steps.)
C19_GetWritesNothing ==
    [][\A k \in Keys :
          (last'.op = "get" /\ Get(k))
              => UNCHANGED <<log, index, offsets_to_rm>>]_vars

\* a get hit and a get miss are both possible on a log that holds records
\* and a store that holds stale offsets
C19_Witness ==
    /\ status = "open"
    /\ log # <<>> /\ offsets_to_rm # {}
    /\ ENABLED (\E k \in Keys : Get(k) /\ last'.value # None)
    /\ ENABLED (\E k \in Keys : Get(k) /\ last'.value = None /\ last'.tag = "Ok")

IsNotGet(c) == c.command_type # "GET"

\* the file f with its GET records deleted
WithoutGet(f) == SelectSeq(f, IsNotGet)

\* C18: the index open builds equals the index built from the same log with
\* its GET records deleted: the same keys, each pointing at the same record.
C18_ReplayIgnoresGet ==
    last.op = "open" =>
        LET g == WithoutGet(log)
        IN  /\ DOMAIN index = DOMAIN replay(g)
            /\ \A k \in DOMAIN index \cap DOMAIN replay(g) :
                   DecodeAt(log, index[k]) = DecodeAt(g, replay(g)[k])

\* C20: every get and remove returns what it returns in the same sequence
\* of calls with the gets before it left out.
C20_GetIsPure ==
    last.op \in {"get", "remove"}
        => (last.tag = twin.tag /\ last.value = twin.value)

\* a compact_log is running, or the process stopped inside it and the
\* directory has not been written since
InOrAfterCompaction ==
    \/ status = "compacting"
    \/ comp.crashed /\ (status = "closed" \/ last.op = "open")

\* C11: from the call of compact_log on, through every step and every
\* point the process may stop at, and at the open after such a stop,
\* kvs.store holds the whole log compact_log was called on until the rename
\* and the whole compacted log after it.
C11_AtomicSwap ==
    InOrAfterCompaction =>
        /\ comp.pc = "copy" => log = comp.old.log
        /\ comp.pc = "renamed" => log = compact_log(comp.old).log
        /\ (comp.pc = "renamed" /\ status = "compacting") =>
               /\ index = compact_log(comp.old).index
               /\ offsets_to_rm = compact_log(comp.old).offsets_to_rm

\* the process stopped with the sibling file half written, and the store
\* was opened again
C11_Witness ==
    /\ status = "open" /\ last.op = "open"
    /\ comp.crashed /\ comp.pc = "copy"
    /\ comp.new_log # <<>>
    /\ comp.i <= Len(comp.old.log)
    /\ compact_log(comp.old).log # comp.old.log
    /\ log = comp.old.log

\* C13: kvs rm of a key that is not in the store prints "Key not found" and
\* exits with status 1; of a key that is in the store it exits with status 0.
C13_RmExitAndMessage ==
    [][\A k \in Keys :
          KvsRm(k) =>
              IF expected[k] = None
              THEN proc' = Exit(<<"Key not found">>, 1)
              ELSE proc'.exit = 0]_vars

\* the exit status alone is as C13 says
RmExitStatus ==
    [][\A k \in Keys :
          KvsRm(k) => proc'.exit = (IF expected[k] = None THEN 1 ELSE 0)]_vars

====
